---- MODULE Spec2Model ----
(***************************************************************************)
(* Model of src/main.py: the POST /run-agent endpoint of the Codegen SDK   *)
(* wrapper.  A request passes the verify_api_key dependency, submits its   *)
(* prompt with agent.run, polls task.refresh every 3 seconds while the     *)
(* task is "pending" (at most 120 seconds) and maps the task to a          *)
(* CodegenResponse.  The handler is a coroutine: every action below is the *)
(* code that runs between two awaits.  Time is a clock in whole seconds.   *)
(***************************************************************************)
EXTENDS Integers, Sequences, FiniteSets, TLC

(* ---------------- bounds of the model ---------------- *)
NumReqs == 2          \* requests the service may be handling
MaxSleepLag == 1      \* seconds asyncio.sleep may overshoot its delay
MaxCallDur == 1       \* seconds a remote call (agent.run, task.refresh) may take
ConcHorizon == 4      \* seconds of concurrent handling that are explored

Reqs == 1..NumReqs

(* ---------------- Python values ---------------- *)
\* Python values are tagged records; a str is a sequence of text pieces so
\* that f-strings are concatenations.
None == [k |-> "none", v |-> <<>>]
Absent == [k |-> "absent", v |-> <<>>]      \* the attribute does not exist
PyStr(s) == [k |-> "str", v |-> <<s>>]
PyInt(n) == [k |-> "int", v |-> <<n>>]
PyText(parts) == [k |-> "str", v |-> parts]

\* str(x)
Str(x) ==
  CASE x.k = "str" -> x
    [] x.k = "int" -> PyStr(ToString(x.v[1]))
    [] x.k = "none" -> PyStr("None")

\* getattr(obj, name, default)
getattr(obj, name, default) == IF obj[name] = Absent THEN default ELSE obj[name]

(* ---------------- configuration and constants of the handler ---------------- *)
APP_API_KEY == "s3cret"
timeout_seconds == 120
polling_interval_seconds == 3

(* ---------------- inputs ---------------- *)
Schemes == {"Bearer", "bearer", "Basic"}
Credentials == {"s3cret", "wrong-token"}
Prompts == {"fix the bug", "add tests"}
Statuses == {PyStr("pending"), PyStr("running"), PyStr("completed"), PyStr("failed")}
TaskIds == {Absent, PyInt(7)}
TaskResults == {None, PyInt(42), PyStr("ok")}
TaskErrors == {Absent, None, PyStr("boom")}
Failures == {"service unreachable", "rate limited"}     \* text of an exception a remote call raises

\* a task of the remote service carries a result only once it is completed;
\* its error_message attribute may be missing, None or a text in any status
WellFormed(t) == t.status # PyStr("completed") => t.result = None

\* what agent.run can return
Tasks == {t \in [id : TaskIds, status : Statuses, result : TaskResults,
                 error_message : TaskErrors] : WellFormed(t)}
NoTask == [id |-> Absent, status |-> None, result |-> None, error_message |-> Absent]

NoResponse == [code |-> 0, body |-> None, detail |-> None]
NotRaised == [by |-> "none", text |-> ""]

VARIABLES clock, pc, auth, prompt, task, start_time, since, lastRemote,
          nSubmit, nRefresh, nSleep, raised, resp
vars == <<clock, pc, auth, prompt, task, start_time, since, lastRemote,
          nSubmit, nRefresh, nSleep, raised, resp>>

(* ---------------- responses ---------------- *)
HTTPException(code, detail) == [code |-> code, body |-> None, detail |-> detail]

CodegenResponse(status, result, error, task_id) ==
  [code |-> 200,
   body |-> [status |-> status, result |-> result, error |-> error, task_id |-> task_id],
   detail |-> None]

\* lines 108-132 (mutant: the id is passed without str())
TaskIdText_Raw(t) == getattr(t, "id", PyStr("N/A"))

\* str(getattr(task, 'id', 'N/A'))
TaskIdText(t) == Str(getattr(t, "id", PyStr("N/A")))

\* line 108 (mutant: the timeout text is also given as the result)
TimeoutResponse_WithResult(t) ==
  CodegenResponse(PyStr("timeout"),
                  PyText(<<"Task timed out after ">> \o Str(PyInt(timeout_seconds)).v \o <<" seconds.">>),
                  PyText(<<"Task timed out after ">> \o Str(PyInt(timeout_seconds)).v \o <<" seconds.">>),
                  TaskIdText(t))

\* line 108
TimeoutResponse(t) ==
  CodegenResponse(PyStr("timeout"), None,
                  PyText(<<"Task timed out after ">> \o Str(PyInt(timeout_seconds)).v \o <<" seconds.">>),
                  TaskIdText(t))

\* line 123 (mutant: the message goes to error)
ActiveResponse_AsError(t) ==
  CodegenResponse(t.status, None,
                  PyText(<<"Task ID: ">> \o TaskIdText(t).v \o <<" is now active.">>),
                  TaskIdText(t))

\* line 123: the task is neither pending nor finished
ActiveResponse(t) ==
  CodegenResponse(t.status,
                  PyText(<<"Task ID: ">> \o TaskIdText(t).v \o <<" is now active.">>),
                  None, TaskIdText(t))

\* line 128 (mutant: the result is passed without str())
CompletedResponse_Raw(t) == CodegenResponse(t.status, t.result, None, TaskIdText(t))

\* line 128
CompletedResponse(t) == CodegenResponse(t.status, Str(t.result), None, TaskIdText(t))

\* lines 131-132
FailedResponse(t) ==
  CodegenResponse(t.status, None,
                  getattr(t, "error_message", PyStr("Codegen task failed.")),
                  TaskIdText(t))

\* lines 120-132 (mutant: the failed branch is missing)
MapResponse_NoFailed(t) ==
  IF t.status \notin {PyStr("pending"), PyStr("completed"), PyStr("failed")}
  THEN ActiveResponse(t)
  ELSE IF t.status = PyStr("completed")
  THEN CompletedResponse(t)
  ELSE NoResponse

\* lines 120-132: the response for a task that is not pending; falls off the
\* end of the function (no response object) when no branch matches
MapResponse(t) ==
  IF t.status \notin {PyStr("pending"), PyStr("completed"), PyStr("failed")}
  THEN ActiveResponse(t)
  ELSE IF t.status = PyStr("completed")
  THEN CompletedResponse(t)
  ELSE IF t.status = PyStr("failed")
  THEN FailedResponse(t)
  ELSE NoResponse

\* lines 136-139 (mutant: the failure's text is dropped)
InternalError_Generic(e) == HTTPException(500, PyStr("An internal error occurred"))

\* lines 136-139
InternalError(e) == HTTPException(500, PyText(<<"An internal error occurred: ", e>>))

(* ---------------- the handler ---------------- *)
Init ==
  /\ clock = 0
  /\ pc = [r \in Reqs |-> "idle"]
  /\ auth = [r \in Reqs |-> [scheme |-> "", credentials |-> ""]]
  /\ prompt = [r \in Reqs |-> ""]
  /\ task = [r \in Reqs |-> NoTask]
  /\ start_time = [r \in Reqs |-> 0]
  /\ since = [r \in Reqs |-> 0]
  /\ lastRemote = [r \in Reqs |-> 0]
  /\ nSubmit = [r \in Reqs |-> 0]
  /\ nRefresh = [r \in Reqs |-> 0]
  /\ nSleep = [r \in Reqs |-> 0]
  /\ raised = [r \in Reqs |-> NotRaised]
  /\ resp = [r \in Reqs |-> NoResponse]

\* lines 59-69 (mutant: the scheme is compared without regard to case)
GateOutcome_AnyCase(s, c) ==
  IF s \notin {"Bearer", "bearer"} THEN 403
  ELSE IF c # APP_API_KEY THEN 401
  ELSE 200

\* lines 59-69 (mutant: the credential is not compared)
GateOutcome_NoKeyCheck(s, c) == IF s # "Bearer" THEN 403 ELSE 200

\* lines 59-69: the verdict of verify_api_key on scheme s and credential c
GateOutcome(s, c) ==
  IF s # "Bearer" THEN 403
  ELSE IF c # APP_API_KEY THEN 401
  ELSE 200

\* lines 57-69, 78: the dependency that guards the endpoint
verify_api_key(r) ==
  /\ pc[r] = "idle"
  /\ \E s \in Schemes, c \in Credentials, p \in Prompts :
       /\ auth' = [auth EXCEPT ![r] = [scheme |-> s, credentials |-> c]]
       /\ CASE GateOutcome(s, c) = 403 ->
                 /\ pc' = [pc EXCEPT ![r] = "done"]
                 /\ resp' = [resp EXCEPT ![r] = HTTPException(403, PyStr("Invalid authentication scheme"))]
                 /\ UNCHANGED prompt
            [] GateOutcome(s, c) = 401 ->
                 /\ pc' = [pc EXCEPT ![r] = "done"]
                 /\ resp' = [resp EXCEPT ![r] = HTTPException(401, PyStr("Invalid API Key"))]
                 /\ UNCHANGED prompt
            [] GateOutcome(s, c) = 200 ->
                 /\ pc' = [pc EXCEPT ![r] = "handler"]
                 /\ prompt' = [prompt EXCEPT ![r] = p]
                 /\ UNCHANGED resp
  /\ UNCHANGED <<clock, task, start_time, since, lastRemote, nSubmit, nRefresh, nSleep, raised>>

\* lines 85-94: the handler starts and hands agent.run to the executor
SubmitCall(r) ==
  /\ pc[r] = "handler"
  /\ pc' = [pc EXCEPT ![r] = "submit"]
  /\ nSubmit' = [nSubmit EXCEPT ![r] = @ + 1]
  /\ since' = [since EXCEPT ![r] = clock]
  /\ UNCHANGED <<clock, auth, prompt, task, start_time, lastRemote, nRefresh, nSleep, raised, resp>>

\* line 106 (mutant: the start of the polling is not subtracted)
TimedOut_Absolute(start, now) == now > timeout_seconds

\* line 106 (mutant: one more polling interval is allowed)
TimedOut_Late(start, now) == now - start > timeout_seconds + polling_interval_seconds

\* line 106: the timeout test
TimedOut(start, now) == now - start > timeout_seconds

\* lines 105-132 (mutant: the loop polls until the task is completed or failed)
Poll_UntilFinished(r, t, now) ==
  IF t.status \notin {PyStr("completed"), PyStr("failed")}
  THEN IF TimedOut(start_time'[r], now)
       THEN /\ pc' = [pc EXCEPT ![r] = "done"]
            /\ resp' = [resp EXCEPT ![r] = TimeoutResponse(t)]
            /\ UNCHANGED <<since, nSleep>>
       ELSE /\ pc' = [pc EXCEPT ![r] = "sleep"]
            /\ since' = [since EXCEPT ![r] = now]
            /\ nSleep' = [nSleep EXCEPT ![r] = @ + 1]
            /\ UNCHANGED resp
  ELSE /\ pc' = [pc EXCEPT ![r] = "done"]
       /\ resp' = [resp EXCEPT ![r] = MapResponse(t)]
       /\ UNCHANGED <<since, nSleep>>

\* lines 105-132 (mutant: the loop body runs once before the status is tested)
Poll_DoWhile(r, t, now) ==
  IF t.status = PyStr("pending") \/ nSleep[r] = 0
  THEN IF TimedOut(start_time'[r], now)
       THEN /\ pc' = [pc EXCEPT ![r] = "done"]
            /\ resp' = [resp EXCEPT ![r] = TimeoutResponse(t)]
            /\ UNCHANGED <<since, nSleep>>
       ELSE /\ pc' = [pc EXCEPT ![r] = "sleep"]
            /\ since' = [since EXCEPT ![r] = now]
            /\ nSleep' = [nSleep EXCEPT ![r] = @ + 1]
            /\ UNCHANGED resp
  ELSE /\ pc' = [pc EXCEPT ![r] = "done"]
       /\ resp' = [resp EXCEPT ![r] = MapResponse(t)]
       /\ UNCHANGED <<since, nSleep>>

\* lines 105-132 (mutant: the timeout is tested before the status the refresh returned)
Poll_TimeoutFirst(r, t, now) ==
  IF TimedOut(start_time'[r], now)
  THEN /\ pc' = [pc EXCEPT ![r] = "done"]
       /\ resp' = [resp EXCEPT ![r] = TimeoutResponse(t)]
       /\ UNCHANGED <<since, nSleep>>
  ELSE IF t.status = PyStr("pending")
  THEN /\ pc' = [pc EXCEPT ![r] = "sleep"]
       /\ since' = [since EXCEPT ![r] = now]
       /\ nSleep' = [nSleep EXCEPT ![r] = @ + 1]
       /\ UNCHANGED resp
  ELSE /\ pc' = [pc EXCEPT ![r] = "done"]
       /\ resp' = [resp EXCEPT ![r] = MapResponse(t)]
       /\ UNCHANGED <<since, nSleep>>

\* lines 105-132 (mutant: the timeout leaves the loop without a response)
Poll_TimeoutBreaks(r, t, now) ==
  IF t.status = PyStr("pending") /\ ~TimedOut(start_time'[r], now)
  THEN /\ pc' = [pc EXCEPT ![r] = "sleep"]
       /\ since' = [since EXCEPT ![r] = now]
       /\ nSleep' = [nSleep EXCEPT ![r] = @ + 1]
       /\ UNCHANGED resp
  ELSE /\ pc' = [pc EXCEPT ![r] = "done"]
       /\ resp' = [resp EXCEPT ![r] = MapResponse(t)]
       /\ UNCHANGED <<since, nSleep>>

\* lines 105-111 and 120-132 for task t at time now: the loop test, the
\* timeout test and either the start of a sleep or the response
Poll(r, t, now) ==
  IF t.status = PyStr("pending")
  THEN IF TimedOut(start_time'[r], now)
       THEN /\ pc' = [pc EXCEPT ![r] = "done"]
            /\ resp' = [resp EXCEPT ![r] = TimeoutResponse(t)]
            /\ UNCHANGED <<since, nSleep>>
       ELSE /\ pc' = [pc EXCEPT ![r] = "sleep"]
            /\ since' = [since EXCEPT ![r] = now]
            /\ nSleep' = [nSleep EXCEPT ![r] = @ + 1]
            /\ UNCHANGED resp
  ELSE /\ pc' = [pc EXCEPT ![r] = "done"]
       /\ resp' = [resp EXCEPT ![r] = MapResponse(t)]
       /\ UNCHANGED <<since, nSleep>>

\* lines 92-103 (mutant: the task is kept in a module-level variable that
\* all requests share)
SubmitReturn_SharedTask(r) ==
  /\ pc[r] = "submit"
  /\ \E t \in Tasks :
       /\ task' = [q \in Reqs |-> t]
       /\ start_time' = [start_time EXCEPT ![r] = clock]
       /\ lastRemote' = [lastRemote EXCEPT ![r] = clock]
       /\ Poll(r, t, clock)
  /\ UNCHANGED <<clock, auth, prompt, nSubmit, nRefresh, raised>>

\* lines 92-103: agent.run returned a task
SubmitReturn(r) ==
  /\ pc[r] = "submit"
  /\ \E t \in Tasks :
       /\ task' = [task EXCEPT ![r] = t]
       /\ start_time' = [start_time EXCEPT ![r] = clock]
       /\ lastRemote' = [lastRemote EXCEPT ![r] = clock]
       /\ Poll(r, t, clock)
  /\ UNCHANGED <<clock, auth, prompt, nSubmit, nRefresh, raised>>

\* lines 92-94, 134-139: agent.run raised
SubmitRaise(r) ==
  /\ pc[r] = "submit"
  /\ \E e \in Failures :
       /\ raised' = [raised EXCEPT ![r] = [by |-> "submit", text |-> e]]
       /\ resp' = [resp EXCEPT ![r] = InternalError(e)]
  /\ pc' = [pc EXCEPT ![r] = "done"]
  /\ UNCHANGED <<clock, auth, prompt, task, start_time, since, lastRemote, nSubmit, nRefresh, nSleep>>

\* line 111 (mutant: the sleep returns a second early)
SleepOver_Short(r, delay) == clock - since[r] >= delay - 1

\* line 111: asyncio.sleep(delay) returns once delay seconds have passed
SleepOver(r, delay) == clock - since[r] >= delay

\* lines 111-114: the sleep is over, task.refresh goes to the executor
RefreshCall(r) ==
  /\ pc[r] = "sleep"
  /\ SleepOver(r, polling_interval_seconds)
  /\ pc' = [pc EXCEPT ![r] = "refresh"]
  /\ nRefresh' = [nRefresh EXCEPT ![r] = @ + 1]
  /\ since' = [since EXCEPT ![r] = clock]
  /\ lastRemote' = [lastRemote EXCEPT ![r] = clock]
  /\ UNCHANGED <<clock, auth, prompt, task, start_time, nSubmit, nSleep, raised, resp>>

\* lines 114-118, then 105-111 or 120-132: task.refresh returned, having
\* set the task's status, result and error message
RefreshReturn(r) ==
  /\ pc[r] = "refresh"
  /\ \E s \in Statuses, res \in TaskResults, em \in TaskErrors :
       LET t == [task[r] EXCEPT !.status = s, !.result = res, !.error_message = em]
       IN /\ WellFormed(t)
          /\ task' = [task EXCEPT ![r] = t]
          /\ UNCHANGED start_time
          /\ Poll(r, t, clock)
  /\ UNCHANGED <<clock, auth, prompt, lastRemote, nSubmit, nRefresh, raised>>

\* lines 114, 134-139 (mutant: a failed refresh is retried after a sleep)
RefreshRaise_Retry(r) ==
  /\ pc[r] = "refresh"
  /\ \E e \in Failures :
       /\ raised' = [raised EXCEPT ![r] = [by |-> "refresh", text |-> e]]
       /\ resp' = [resp EXCEPT ![r] = InternalError(e)]
  /\ pc' = [pc EXCEPT ![r] = "sleep"]
  /\ since' = [since EXCEPT ![r] = clock]
  /\ UNCHANGED <<clock, auth, prompt, task, start_time, lastRemote, nSubmit, nRefresh, nSleep>>

\* lines 114, 134-139: task.refresh raised
RefreshRaise(r) ==
  /\ pc[r] = "refresh"
  /\ \E e \in Failures :
       /\ raised' = [raised EXCEPT ![r] = [by |-> "refresh", text |-> e]]
       /\ resp' = [resp EXCEPT ![r] = InternalError(e)]
  /\ pc' = [pc EXCEPT ![r] = "done"]
  /\ UNCHANGED <<clock, auth, prompt, task, start_time, since, lastRemote, nSubmit, nRefresh, nSleep>>

\* a second passes while some request waits for a sleep or a remote call
Tick ==
  /\ \E r \in Reqs : pc[r] \in {"submit", "sleep", "refresh"}
  /\ \A r \in Reqs :
       /\ pc[r] = "sleep" => clock - since[r] < polling_interval_seconds + MaxSleepLag
       /\ pc[r] \in {"submit", "refresh"} => clock - since[r] < MaxCallDur
  /\ clock' = clock + 1
  /\ UNCHANGED <<pc, auth, prompt, task, start_time, since, lastRemote,
                 nSubmit, nRefresh, nSleep, raised, resp>>

Step(r) ==
  \/ verify_api_key(r)
  \/ SubmitCall(r)
  \/ SubmitReturn(r)
  \/ SubmitRaise(r)
  \/ RefreshCall(r)
  \/ RefreshReturn(r)
  \/ RefreshRaise(r)

\* one request in the service
Next ==
  \/ Step(1)
  \/ Tick

Spec == Init /\ [][Next]_vars

\* several requests in the service at once: the coroutines of the handlers
\* interleave at their awaits, the executor runs their remote calls in
\* parallel; explored for the first ConcHorizon seconds
TickConc == clock < ConcHorizon /\ Tick

NextConc ==
  \/ \E r \in Reqs : Step(r)
  \/ TickConc

SpecConc == Init /\ [][NextConc]_vars

\* the event loop resumes a handler whose await is over, every remote call
\* returns or raises, and time passes
FairSpec == Spec /\ WF_vars(Step(1)) /\ WF_vars(Tick)

TypeOK ==
  /\ clock \in Nat
  /\ \A r \in Reqs : pc[r] \in {"idle", "handler", "submit", "sleep", "refresh", "done"}

(* ---------------- vocabulary of the properties ---------------- *)
Pending == PyStr("pending")
Completed == PyStr("completed")
Failed == PyStr("failed")
PassedGate(r) == pc[r] # "idle" /\ auth[r].scheme = "Bearer" /\ auth[r].credentials = APP_API_KEY
\* the handler of request r returned a response object or raised
Finished(r) == PassedGate(r) /\ pc[r] = "done"
Mentions(text, piece) == text.k = "str" /\ \E i \in 1..Len(text.v) : text.v[i] = piece
Elapsed(r) == clock - start_time[r]
\* the pieces of the text form of a task's id or result
TextOf(x) ==
  CASE x.k = "str" -> x.v
    [] x.k = "int" -> <<ToString(x.v[1])>>
    [] x.k = "none" -> <<"None">>

(* C1: a request that passed the credential check, in which no remote call *)
(* raised and whose task was pending after submit and after every refresh, *)
(* ends with status "timeout", an error text mentioning "120" and no       *)
(* result; and no sleep of the polling loop begins later than 120 seconds  *)
(* after submit returned, so the timeout outcome is reached.               *)
C1_PendingTimesOut ==
  \A r \in Reqs :
    /\ (Finished(r) /\ raised[r].by = "none" /\ task[r].status = Pending)
         => /\ resp[r].code = 200
            /\ resp[r].body.status = PyStr("timeout")
            /\ Mentions(resp[r].body.error, "120")
            /\ resp[r].body.result = None
            /\ Elapsed(r) > 120
    /\ pc[r] = "sleep" => since[r] - start_time[r] <= 120

C1_Witness ==
  \E r \in Reqs :
    /\ Finished(r) /\ raised[r].by = "none" /\ task[r].status = Pending
    /\ nRefresh[r] >= 30
    /\ resp[r].body.status = PyStr("timeout")

(* C2: a task that a refresh shows to have left pending for a status other *)
(* than pending, completed or failed yields a 200 response whose status is *)
(* that raw status, whose result is a text containing the task id and      *)
(* whose error is absent.                                                  *)
C2_ActiveOutcome ==
  \A r \in Reqs :
    (Finished(r) /\ raised[r].by = "none" /\ nRefresh[r] >= 1
       /\ task[r].status \notin {Pending, Completed, Failed})
      => /\ resp[r].code = 200
         /\ resp[r].body.status = task[r].status
         /\ resp[r].body.error = None
         /\ resp[r].body.result # None
         /\ Mentions(resp[r].body.result,
                     IF task[r].id = Absent THEN "N/A" ELSE ToString(task[r].id.v[1]))

C2_Witness ==
  \E r \in Reqs :
    /\ Finished(r) /\ nRefresh[r] >= 2 /\ Elapsed(r) <= 120
    /\ task[r].status = PyStr("running") /\ task[r].id = PyInt(7)
    /\ resp[r].body.status = PyStr("running")
    /\ resp[r].body.result = PyText(<<"Task ID: ", "7", " is now active.">>)

(* C3: a task that is completed immediately after submit yields a 200      *)
(* response with status "completed", result the text form of the task's    *)
(* result, and no error.                                                   *)
C3_CompletedAtSubmit ==
  \A r \in Reqs :
    (Finished(r) /\ raised[r].by = "none" /\ nRefresh[r] = 0 /\ task[r].status = Completed)
      => /\ resp[r].code = 200
         /\ resp[r].body.status = Completed
         /\ resp[r].body.result.k = "str"
         /\ resp[r].body.result.v =
              (CASE task[r].result.k = "str" -> task[r].result.v
                 [] task[r].result.k = "int" -> <<ToString(task[r].result.v[1])>>
                 [] task[r].result.k = "none" -> <<"None">>)
         /\ resp[r].body.error = None

C3_Witness ==
  \E r \in Reqs :
    /\ Finished(r) /\ nRefresh[r] = 0 /\ nSleep[r] = 0
    /\ task[r].status = Completed /\ task[r].result = PyInt(42)
    /\ task[r].error_message = PyStr("boom")
    /\ resp[r].body.result = PyStr("42")

(* C4: a task that is failed immediately after submit yields a 200         *)
(* response with status "failed", no result, and error equal to the task's *)
(* error message, or to the fallback literal when the task exposes no      *)
(* error message; the error is never absent.                               *)
C4_FailedAtSubmit ==
  \A r \in Reqs :
    (Finished(r) /\ raised[r].by = "none" /\ nRefresh[r] = 0 /\ task[r].status = Failed)
      => /\ resp[r].code = 200
         /\ resp[r].body.status = Failed
         /\ resp[r].body.result = None
         /\ resp[r].body.error =
              (IF task[r].error_message \in {Absent, None}
               THEN PyStr("Codegen task failed.") ELSE task[r].error_message)
         /\ resp[r].body.error # None

(* C5: a refresh is called no sooner than 3 seconds after submit returned  *)
(* (first refresh) or after the previous refresh was called.               *)
C5_RefreshSpacing ==
  [][\A r \in Reqs :
       (pc[r] = "sleep" /\ pc'[r] = "refresh") => clock - lastRemote[r] >= 3]_vars

C5_Witness ==
  \E r \in Reqs : pc[r] = "refresh" /\ nRefresh[r] = 3 /\ Elapsed(r) = 9

(* C6: a request whose scheme is not exactly "Bearer" is rejected with 403 *)
(* and neither submit nor refresh is called for it.                        *)
C6_WrongScheme ==
  \A r \in Reqs :
    (pc[r] # "idle" /\ auth[r].scheme # "Bearer")
      => /\ pc[r] = "done"
         /\ resp[r].code = 403
         /\ nSubmit[r] = 0 /\ nRefresh[r] = 0

C6_Witness ==
  \E r \in Reqs :
    /\ auth[r].scheme = "bearer" /\ auth[r].credentials = APP_API_KEY
    /\ pc[r] = "done" /\ resp[r].code = 403

(* C7: scheme "Bearer" with a credential other than the secret is rejected *)
(* with 401 and no remote call; the handler body runs only for scheme      *)
(* "Bearer" with the exact secret.                                         *)
C7_WrongKey ==
  \A r \in Reqs :
    /\ (pc[r] # "idle" /\ auth[r].scheme = "Bearer" /\ auth[r].credentials # APP_API_KEY)
         => /\ pc[r] = "done"
            /\ resp[r].code = 401
            /\ nSubmit[r] = 0 /\ nRefresh[r] = 0
    /\ (pc[r] \in {"handler", "submit", "sleep", "refresh"} \/ nSubmit[r] > 0)
         => (auth[r].scheme = "Bearer" /\ auth[r].credentials = APP_API_KEY)

C7_Witness ==
  \E r \in Reqs :
    /\ auth[r].scheme = "Bearer" /\ auth[r].credentials = "wrong-token"
    /\ pc[r] = "done" /\ resp[r].code = 401

(* C8: when submit raises, the response is a 500 whose detail contains the *)
(* failure's text, and no sleep and no refresh happens for the request.    *)
C8_SubmitRaises ==
  \A r \in Reqs :
    raised[r].by = "submit"
      => /\ pc[r] = "done"
         /\ resp[r].code = 500
         /\ Mentions(resp[r].detail, raised[r].text)
         /\ nSleep[r] = 0 /\ nRefresh[r] = 0

C8_Witness ==
  \E r \in Reqs :
    /\ raised[r] = [by |-> "submit", text |-> "rate limited"]
    /\ resp[r].code = 500 /\ nSubmit[r] = 1

(* C9: the first failure raised by a refresh ends the request with a 500   *)
(* carrying the failure's text; once a remote call has raised the request  *)
(* is over, so no further remote call is made; submit is called at most    *)
(* once.                                                                   *)
C9_NoRetry ==
  \A r \in Reqs :
    /\ raised[r].by = "refresh"
         => /\ resp[r].code = 500
            /\ Mentions(resp[r].detail, raised[r].text)
    /\ raised[r].by # "none" => pc[r] = "done"
    /\ nSubmit[r] <= 1

C9_Witness ==
  \E r \in Reqs :
    /\ raised[r].by = "refresh" /\ nRefresh[r] = 2
    /\ pc[r] = "done" /\ resp[r].code = 500

(* C10: a request that passed the gate and in which no remote call raised  *)
(* is answered 200 with a CodegenResponse body; a 500 is produced only     *)
(* when submit or refresh raised.                                          *)
C10_Always200 ==
  \A r \in Reqs :
    /\ (Finished(r) /\ raised[r].by = "none")
         => /\ resp[r].code = 200
            /\ resp[r].body # None
            /\ resp[r].body.status \in {PyStr("timeout"), task[r].status}
    /\ resp[r].code = 500 => raised[r].by \in {"submit", "refresh"}

C10_Witness ==
  \E r \in Reqs :
    /\ Finished(r) /\ raised[r].by = "none" /\ nRefresh[r] >= 1
    /\ task[r].status = Failed /\ resp[r].code = 200
    /\ resp[r].body.status = Failed

(* C11: in every CodegenResponse the handler returns, status is populated  *)
(* with a text and at most one of result and error is populated.           *)
C11_ResultXorError ==
  \A r \in Reqs :
    resp[r].code = 200
      => /\ resp[r].body.status.k = "str"
         /\ Len(resp[r].body.status.v) > 0
         /\ ~(resp[r].body.result # None /\ resp[r].body.error # None)

C11_Witness ==
  \E r \in Reqs :
    /\ Finished(r) /\ nRefresh[r] >= 2
    /\ task[r].status = Completed /\ task[r].result = PyStr("ok")
    /\ task[r].error_message = PyStr("boom")
    /\ resp[r].body.result = PyStr("ok") /\ resp[r].body.error = None

(* C12: every CodegenResponse the handler returns carries a task_id that   *)
(* is the text form of the id of the task its submit returned, or "N/A"    *)
(* when the task has no id attribute; task_id is never absent.             *)
C12_TaskId ==
  \A r \in Reqs :
    resp[r].code = 200
      => /\ resp[r].body.task_id.k = "str"
         /\ resp[r].body.task_id.v =
              (IF task[r].id = Absent THEN <<"N/A">> ELSE <<ToString(task[r].id.v[1])>>)

C12_Witness ==
  \E r \in Reqs :
    /\ Finished(r) /\ resp[r].code = 200
    /\ resp[r].body.status = PyStr("timeout")
    /\ task[r].id = PyInt(7) /\ resp[r].body.task_id = PyStr("7")

(* C13 as stated: a polling iteration (sleep, then refresh) begins only    *)
(* while the status is pending and the elapsed time at the check is        *)
(* strictly less than 120 seconds.                                         *)
C13_StrictlyBelowTimeout ==
  \A r \in Reqs :
    pc[r] = "sleep" => /\ task[r].status = Pending
                       /\ since[r] - start_time[r] < 120

(* C13 amended: a polling iteration begins only while the status is        *)
(* pending and the elapsed time at the check is at most 120 seconds; an    *)
(* iteration does begin when the elapsed time is exactly 120.              *)
C13_AtMostTimeout ==
  \A r \in Reqs :
    /\ pc[r] = "sleep" => /\ task[r].status = Pending
                          /\ since[r] - start_time[r] <= 120
    /\ pc[r] = "refresh" => /\ task[r].status = Pending
                            /\ since[r] - start_time[r] <= 120 + 3 + MaxSleepLag

C13_Witness ==
  \E r \in Reqs :
    pc[r] = "sleep" /\ task[r].status = Pending /\ since[r] - start_time[r] = 120

(* C14: the refresh that shows the task has left pending ends the request  *)
(* in the same step, with the status it showed; once a task is seen        *)
(* non-pending its request calls refresh no more.  So the status of a      *)
(* completed or failed response is the first non-pending status seen.      *)
C14_SingleEarlyReturn ==
  [][\A r \in Reqs :
       /\ (task'[r].status \notin {None, Pending} /\ raised'[r].by = "none")
            => /\ pc'[r] = "done"
               /\ resp'[r].code = 200
               /\ resp'[r].body.status = task'[r].status
       /\ task'[r].status # task[r].status => task[r].status \in {None, Pending}
       /\ task[r].status \notin {None, Pending}
            => (nRefresh'[r] = nRefresh[r] /\ task'[r] = task[r])]_vars

C14_Witness ==
  \E r \in Reqs :
    /\ Finished(r) /\ nRefresh[r] = 2 /\ Elapsed(r) < 120
    /\ task[r].status = PyStr("running")
    /\ resp[r].body.status = PyStr("running")

(* C15: when the task submit returns is not pending, the request ends in   *)
(* that step without a sleep and without a refresh, and its response       *)
(* carries the status submit returned.                                     *)
C15_NoPollingNeeded ==
  [][\A r \in Reqs :
       (pc[r] = "submit" /\ pc'[r] # "submit" /\ raised'[r].by = "none"
          /\ task'[r].status # Pending)
         => /\ pc'[r] = "done"
            /\ nSleep'[r] = 0 /\ nRefresh'[r] = 0
            /\ resp'[r].code = 200
            /\ resp'[r].body.status = task'[r].status]_vars

C15_Witness ==
  \E r \in Reqs :
    /\ Finished(r) /\ raised[r].by = "none"
    /\ nSleep[r] = 0 /\ nRefresh[r] = 0
    /\ task[r].status = PyStr("running")
    /\ resp[r].body.status = PyStr("running")

(* C18: a timeout response is returned only when the last status the       *)
(* handler saw is pending and more than 120 seconds have passed since      *)
(* polling started; a non-pending status is reported as such however late  *)
(* the refresh that showed it returned.                                    *)
C18_TimeoutOnlyIfPending ==
  \A r \in Reqs :
    /\ (resp[r].code = 200 /\ resp[r].body.status = PyStr("timeout"))
         => (task[r].status = Pending /\ Elapsed(r) > 120)
    /\ (Finished(r) /\ raised[r].by = "none" /\ task[r].status # Pending)
         => (resp[r].code = 200 /\ resp[r].body.status = task[r].status)

C18_Witness ==
  \E r \in Reqs :
    /\ Finished(r) /\ raised[r].by = "none" /\ Elapsed(r) > 120
    /\ task[r].status = Completed /\ task[r].result = PyStr("ok")
    /\ resp[r].body.status = Completed /\ resp[r].body.result = PyStr("ok")

(* C19: a request makes at most 41 refresh calls, however long the task    *)
(* stays pending and however long sleeps and refreshes take; the k-th      *)
(* refresh is called no sooner than 3k seconds after polling started.      *)
C19_AtMost41Refreshes ==
  \A r \in Reqs :
    /\ nRefresh[r] <= 41
    /\ pc[r] = "refresh" => since[r] - start_time[r] >= 3 * nRefresh[r]

C19_Witness ==
  \E r \in Reqs :
    /\ nRefresh[r] = 41 /\ Finished(r)
    /\ resp[r].body.status = PyStr("timeout") /\ Elapsed(r) = 123

(* C16: every request that passed the credential gate eventually ends with *)
(* a response (200 with a body, or 500), also when its task stays pending  *)
(* for ever; the response, once given, is never replaced.                  *)
C16_EventuallyAnswered ==
  /\ \A r \in Reqs :
       PassedGate(r) ~> (pc[r] = "done" /\ resp[r].code \in {200, 500})
  /\ [][\A r \in Reqs : resp[r] # NoResponse => resp'[r] = resp[r]]_vars

C16_Witness ==
  \E r \in Reqs :
    /\ Finished(r) /\ nRefresh[r] = 41 /\ task[r].status = Pending
    /\ resp[r].code = 200 /\ resp[r].body.status = PyStr("timeout")

(* C17: with several requests in the service, a step of one request (or    *)
(* the passing of time) changes nothing of another request: not its task,  *)
(* response, counters or timers; and the response a request ends with is   *)
(* built from the task its own submit returned.                            *)
C17_NoInterference ==
  [][\A r \in Reqs :
       /\ pc'[r] = pc[r]
            => /\ task'[r] = task[r] /\ resp'[r] = resp[r]
               /\ start_time'[r] = start_time[r] /\ since'[r] = since[r]
               /\ nSubmit'[r] = nSubmit[r] /\ nRefresh'[r] = nRefresh[r]
               /\ raised'[r] = raised[r]
       /\ (pc'[r] = "done" /\ resp'[r].code = 200)
            => /\ resp'[r].body.status \in {PyStr("timeout"), task'[r].status}
               /\ resp'[r].body.task_id.v =
                    (IF task'[r].id = Absent THEN <<"N/A">>
                     ELSE <<ToString(task'[r].id.v[1])>>)
               /\ task'[r].status = Completed
                    => (resp'[r].body.result.k = "str"
                        /\ resp'[r].body.result.v = TextOf(task'[r].result))
               /\ task'[r].status = Failed
                    => resp'[r].body.error \in
                         {task'[r].error_message, PyStr("Codegen task failed.")}]_vars

C17_Witness ==
  \E r, q \in Reqs :
    /\ r # q /\ Finished(r) /\ Finished(q)
    /\ nRefresh[r] = 1 /\ nRefresh[q] = 1
    /\ task[r].id = PyInt(7) /\ task[r].status = Completed /\ task[r].result = PyStr("ok")
    /\ task[q].id = Absent /\ task[q].status = Failed
    /\ task[q].error_message = PyStr("boom")
    /\ resp[r].body.result = PyStr("ok") /\ resp[r].body.task_id = PyStr("7")
    /\ resp[q].body.error = PyStr("boom") /\ resp[q].body.task_id = PyStr("N/A")
====
